---- MODULE Spec2Model ----
(***************************************************************************)
(* minigrep: a model of src/src/lib.rs and src/src/main.rs.                *)
(*                                                                         *)
(* A string is a sequence of characters.  The characters are a small       *)
(* alphabet that holds one representative of every class the code's        *)
(* string operations distinguish: an ASCII letter in both cases, the       *)
(* Greek sigma in its three forms (the one contextual lowercase mapping),  *)
(* a case-ignorable punctuation mark, and the two line-ending characters.  *)
(*                                                                         *)
(* Two specifications:                                                     *)
(*   SpecSearch  the two pure search functions applied to every            *)
(*               (query, contents) pair within the bounds;                 *)
(*   Spec        one execution of the program: main, Config::new, run.     *)
(***************************************************************************)
EXTENDS Integers, Sequences, FiniteSets

VARIABLES
    \* ---- the program (Spec) ----
    args,       \* main.rs:20  the argument vector, program name first
    env,        \* the state of the CASE_INSENSITIVE environment variable
    pc,         \* position of the execution in main / run
    parsed,     \* main.rs:24  the Result of Config::new
    opened,     \* lib.rs:50   the filenames passed to fs::read_to_string
    read_result,\* lib.rs:50   the Result of fs::read_to_string
    contents,   \* lib.rs:50   the String read from the file
    results,    \* lib.rs:52   the Vec returned by the selected search
    next_line,  \* lib.rs:58   position of the for loop in results
    run_result, \* main.rs:31  the Result of run
    stdout,     \* the records written by println!
    stderr,     \* the records written by eprintln!
    status,     \* the exit status of the process
    calls,      \* history: the functions called, in order
    \* ---- the search functions applied on their own (SpecSearch) ----
    query,      \* lib.rs:68/79  the query argument
    text,       \* lib.rs:68/79  the contents argument
    found,      \* the value returned by search(query, text)
    found_ci,   \* the value returned by search_case_insensitive(query, text)
    step        \* which of the two calls have returned

progVars == <<args, env, pc, parsed, opened, read_result, contents, results, next_line,
              run_result, stdout, stderr, status, calls>>
fnVars   == <<query, text, found, found_ci, step>>
vars     == <<progVars, fnVars>>

-----------------------------------------------------------------------------
(* Bounds *)

MaxContentLen == 3      \* longest contents searched in SpecSearch
MaxQueryLen   == 1      \* longest query searched in SpecSearch

-----------------------------------------------------------------------------
(* Characters and strings *)

LF == "\n"
CR == "\r"

Char == {"a", "A", "SIGMA", "sigma", "final_sigma", ".", LF, CR}

None == [some |-> FALSE]
Some(v) == [some |-> TRUE, val |-> v]

\* All strings of at most n characters.
Strings(n) == UNION {[1..k -> Char] : k \in 0..n}

Reverse(s) == [i \in 1..Len(s) |-> s[Len(s) + 1 - i]]

-----------------------------------------------------------------------------
(* str::lines, as contents.lines() computes it:                            *)
(*   self.split_inclusive('\n').map(|line| {                               *)
(*       let Some(line) = line.strip_suffix('\n') else { return line };    *)
(*       let Some(line) = line.strip_suffix('\r') else { return line };    *)
(*       line })                                                           *)
(* A carriage return is dropped only together with the newline after it;   *)
(* a last line that ends in a bare carriage return keeps it.               *)

\* Index of the first occurrence of ch in s, 0 when there is none.
find_char(s, ch) ==
    IF \E i \in 1..Len(s) : s[i] = ch
    THEN CHOOSE i \in 1..Len(s) : s[i] = ch /\ \A j \in 1..(i - 1) : s[j] # ch
    ELSE 0

\* The pieces of s, each ending with its '\n' (the last one may have none);
\* the empty string has no piece.
RECURSIVE split_inclusive(_)
split_inclusive(s) ==
    IF s = <<>> THEN <<>>
    ELSE LET i == find_char(s, LF)
         IN  IF i = 0 THEN <<s>>
             ELSE <<SubSeq(s, 1, i)>> \o split_inclusive(SubSeq(s, i + 1, Len(s)))

\* Some(prefix) when s ends with ch, None otherwise.
strip_suffix(s, ch) ==
    IF s # <<>> /\ s[Len(s)] = ch THEN Some(SubSeq(s, 1, Len(s) - 1)) ELSE None

\* Mutant: the carriage return of a "\r\n" ending is left on the line.
lines_map_keep_cr(piece) ==
    LET l1 == strip_suffix(piece, LF)
    IN  IF ~l1.some THEN piece ELSE l1.val

lines_map(piece) ==
    LET l1 == strip_suffix(piece, LF)
    IN  IF ~l1.some THEN piece
        ELSE LET l2 == strip_suffix(l1.val, CR)
             IN  IF ~l2.some THEN l1.val ELSE l2.val

lines(s) ==
    LET pieces == split_inclusive(s)
    IN  [i \in 1..Len(pieces) |-> lines_map(pieces[i])]

-----------------------------------------------------------------------------
(* str::contains with a &str pattern: the needle occurs at some offset.    *)

\* Mutant: the needle is looked for at the start of the haystack only.
contains_at_start(haystack, needle) ==
    /\ Len(needle) <= Len(haystack)
    /\ SubSeq(haystack, 1, Len(needle)) = needle

\* Mutant: the last offset is never tried.
contains_off_by_one(haystack, needle) ==
    \E i \in 1..(Len(haystack) - Len(needle)) :
        SubSeq(haystack, i, i + Len(needle) - 1) = needle

contains(haystack, needle) ==
    \E i \in 1..(Len(haystack) - Len(needle) + 1) :
        SubSeq(haystack, i, i + Len(needle) - 1) = needle

-----------------------------------------------------------------------------
(* str::to_lowercase: every character is mapped by char::to_lowercase,     *)
(* except the capital sigma, which becomes the final sigma at the end of a *)
(* word (preceded by a cased letter and not followed by one, skipping      *)
(* case-ignorable characters) and the ordinary small sigma elsewhere.      *)

Cased(c) == c \in {"a", "A", "SIGMA", "sigma", "final_sigma"}

Case_Ignorable(c) == c = "."

to_lower(c) ==
    CASE c = "A"     -> "a"
      [] c = "SIGMA" -> "sigma"
      [] OTHER       -> c

\* iter.skip_while(Case_Ignorable).next() is Some(c) with Cased(c)
case_ignorable_then_cased(s) ==
    LET rest == {i \in 1..Len(s) : ~Case_Ignorable(s[i])}
    IN  /\ rest # {}
        /\ Cased(s[CHOOSE i \in rest : \A j \in rest : i <= j])

map_uppercase_sigma(from, i) ==
    LET is_word_final ==
            /\ case_ignorable_then_cased(Reverse(SubSeq(from, 1, i - 1)))
            /\ ~case_ignorable_then_cased(SubSeq(from, i + 1, Len(from)))
    IN  IF is_word_final THEN "final_sigma" ELSE "sigma"

to_lowercase(s) ==
    [i \in 1..Len(s) |->
        IF s[i] = "SIGMA" THEN map_uppercase_sigma(s, i) ELSE to_lower(s[i])]

-----------------------------------------------------------------------------
(* lib.rs:68-77  search *)

RECURSIVE search_loop(_, _, _)
search_loop(q, ls, acc) ==
    IF ls = <<>> THEN acc
    ELSE search_loop(q, Tail(ls),
                     IF contains(Head(ls), q) THEN Append(acc, Head(ls)) ELSE acc)

search(q, c) == search_loop(q, lines(c), <<>>)

(* lib.rs:79-90  search_case_insensitive *)

\* Mutant: the lowercased copy of the line is pushed instead of the line.
RECURSIVE search_ci_loop_lowered(_, _, _)
search_ci_loop_lowered(q, ls, acc) ==
    IF ls = <<>> THEN acc
    ELSE search_ci_loop_lowered(q, Tail(ls),
                                IF contains(to_lowercase(Head(ls)), q)
                                THEN Append(acc, to_lowercase(Head(ls))) ELSE acc)

RECURSIVE search_ci_loop(_, _, _)
search_ci_loop(q, ls, acc) ==
    IF ls = <<>> THEN acc
    ELSE search_ci_loop(q, Tail(ls),
                        IF contains(to_lowercase(Head(ls)), q)
                        THEN Append(acc, Head(ls)) ELSE acc)

search_case_insensitive(q, c) ==
    LET lowered == to_lowercase(q)
    IN  search_ci_loop(lowered, lines(c), <<>>)

-----------------------------------------------------------------------------
(* The environment of one execution.                                       *)

MaxPositional == 3      \* most positional arguments after the program name
MaxFileLen    == 3      \* longest file contents read in Spec

ProgName == <<"m">>

\* The strings given on the command line, as query, filename or surplus.
ArgStrings == {<<>>, <<"a">>, <<"A">>}

\* env::args().collect(): the program name, then the positional arguments.
ArgVectors ==
    {<<ProgName>> \o p : p \in UNION {[1..k -> ArgStrings] : k \in 0..MaxPositional}}

\* CASE_INSENSITIVE is unset, set to the empty string, set to a non-empty
\* string, or set to bytes that are not valid Unicode.
EnvStates == {"unset", "set_empty", "set_value", "set_not_unicode"}

\* lib.rs:34  env::var("CASE_INSENSITIVE")
env_var(e) ==
    CASE e = "unset"           -> [kind |-> "Err", error |-> "NotPresent"]
      [] e = "set_empty"       -> [kind |-> "Ok", value |-> ""]
      [] e = "set_value"       -> [kind |-> "Ok", value |-> "1"]
      [] e = "set_not_unicode" -> [kind |-> "Err", error |-> "NotUnicode"]

is_ok(r) == r.kind = "Ok"

is_err(r) == r.kind = "Err"

\* The characters of the files read in Spec.
FileChar == {"a", "A", LF, CR}

FileStrings(n) == UNION {[1..k -> FileChar] : k \in 0..n}

\* The io::Error kinds fs::read_to_string fails with.
IoErrors == {"NotFound", "PermissionDenied", "InvalidData"}

\* lib.rs:50  fs::read_to_string(filename): the file's whole contents, or an
\* io::Error.  No file has the empty name.
read_to_string(filename) ==
    {[kind |-> "Err", error |-> e] : e \in IoErrors}
    \cup (IF filename = <<>> THEN {}
          ELSE {[kind |-> "Ok", value |-> c] : c \in FileStrings(MaxFileLen)})

-----------------------------------------------------------------------------
(* lib.rs:18-40  Config::new *)

\* Mutant: the toggle is read with is_ok instead of is_err.
Config_new_is_ok(a, e) ==
    IF Len(a) < 3
    THEN [kind |-> "Err", error |-> "not enough arguments"]
    ELSE [kind  |-> "Ok",
          value |-> [query          |-> a[2],
                     filename       |-> a[3],
                     case_sensitive |-> is_ok(env_var(e))]]

\* Mutant: one positional argument is accepted, the filename left empty.
Config_new_lenient(a, e) ==
    IF Len(a) < 2
    THEN [kind |-> "Err", error |-> "not enough arguments"]
    ELSE [kind  |-> "Ok",
          value |-> [query          |-> a[2],
                     filename       |-> IF Len(a) < 3 THEN <<>> ELSE a[3],
                     case_sensitive |-> is_err(env_var(e))]]

\* Mutant: the last two arguments are taken instead of the first two.
Config_new_last_args(a, e) ==
    IF Len(a) < 3
    THEN [kind |-> "Err", error |-> "not enough arguments"]
    ELSE [kind  |-> "Ok",
          value |-> [query          |-> a[Len(a) - 1],
                     filename       |-> a[Len(a)],
                     case_sensitive |-> is_err(env_var(e))]]

Config_new(a, e) ==
    IF Len(a) < 3
    THEN [kind |-> "Err", error |-> "not enough arguments"]
    ELSE [kind  |-> "Ok",
          value |-> [query          |-> a[2],
                     filename       |-> a[3],
                     case_sensitive |-> is_err(env_var(e))]]

(* lib.rs:52-56  the search run selects *)

selected_search(config) ==
    IF config.case_sensitive THEN "search" ELSE "search_case_insensitive"

run_search(config, c) ==
    IF config.case_sensitive
    THEN search(config.query, c)
    ELSE search_case_insensitive(config.query, c)

-----------------------------------------------------------------------------
(* Spec: one execution of main.  The arguments are valid Unicode (with     *)
(* others env::args() panics before Config::new, main.rs:7-9) and standard *)
(* output accepts every record println! writes.                            *)

FnIdle ==
    /\ query = <<>>
    /\ text = <<>>
    /\ found = <<>>
    /\ found_ci = <<>>
    /\ step = "idle"

Init ==
    /\ args \in ArgVectors
    /\ env \in EnvStates
    /\ pc = "main"
    /\ parsed = [kind |-> "None"]
    /\ opened = <<>>
    /\ read_result = [kind |-> "None"]
    /\ contents = <<>>
    /\ results = <<>>
    /\ next_line = 1
    /\ run_result = [kind |-> "None"]
    /\ stdout = <<>>
    /\ stderr = <<>>
    /\ status = <<>>
    /\ calls = <<>>
    /\ FnIdle

\* main.rs:24  Config::new(&args)
MainConfigNew ==
    /\ pc = "main"
    /\ parsed' = Config_new(args, env)
    /\ calls' = Append(calls, "Config::new")
    /\ pc' = IF is_ok(parsed') THEN "run" ELSE "config_err"
    /\ UNCHANGED <<args, env, opened, read_result, contents, results, next_line, run_result,
                   stdout, stderr, status, fnVars>>

\* main.rs:24-28  the unwrap_or_else closure
MainConfigErr ==
    /\ pc = "config_err"
    /\ stderr' = Append(stderr, <<"Problem parsing arguments: ", parsed.error>>)
    /\ status' = <<1>>
    /\ pc' = "exited"
    /\ UNCHANGED <<args, env, parsed, opened, read_result, contents, results, next_line,
                   run_result, stdout, calls, fnVars>>

\* lib.rs:50  the read succeeds
RunReadOk ==
    /\ pc = "run"
    /\ \E r \in read_to_string(parsed.value.filename) :
          /\ is_ok(r)
          /\ read_result' = r
          /\ contents' = r.value
    /\ opened' = Append(opened, parsed.value.filename)
    /\ calls' = Append(calls, "fs::read_to_string")
    /\ pc' = "search"
    /\ UNCHANGED <<args, env, parsed, results, next_line, run_result, stdout,
                   stderr, status, fnVars>>

\* Mutant: a failed read is taken as an empty file and run goes on.
RunReadErr_default ==
    /\ pc = "run"
    /\ \E r \in read_to_string(parsed.value.filename) :
          /\ is_err(r)
          /\ read_result' = r
    /\ contents' = <<>>
    /\ opened' = Append(opened, parsed.value.filename)
    /\ calls' = Append(calls, "fs::read_to_string")
    /\ pc' = "search"
    /\ UNCHANGED <<args, env, parsed, results, next_line, run_result, stdout,
                   stderr, status, fnVars>>

\* lib.rs:50  the read fails and ? returns the error from run
RunReadErr ==
    /\ pc = "run"
    /\ \E r \in read_to_string(parsed.value.filename) :
          /\ is_err(r)
          /\ read_result' = r
          /\ run_result' = r
    /\ opened' = Append(opened, parsed.value.filename)
    /\ calls' = Append(calls, "fs::read_to_string")
    /\ pc' = "run_err"
    /\ UNCHANGED <<args, env, parsed, contents, results, next_line, stdout,
                   stderr, status, fnVars>>

\* lib.rs:52-56
RunSearch ==
    /\ pc = "search"
    /\ results' = run_search(parsed.value, contents)
    /\ calls' = Append(calls, selected_search(parsed.value))
    /\ pc' = "print"
    /\ UNCHANGED <<args, env, parsed, opened, read_result, contents, next_line, run_result,
                   stdout, stderr, status, fnVars>>

\* Mutant: a line equal to the record written last is not written again.
RunPrintln_dedup ==
    /\ pc = "print"
    /\ next_line <= Len(results)
    /\ stdout' = IF stdout # <<>> /\ stdout[Len(stdout)] = results[next_line]
                 THEN stdout
                 ELSE Append(stdout, results[next_line])
    /\ next_line' = next_line + 1
    /\ calls' = Append(calls, "println")
    /\ UNCHANGED <<args, env, pc, parsed, opened, read_result, contents, results,
                   run_result, stderr, status, fnVars>>

\* lib.rs:58-60  one iteration of the for loop
RunPrintln ==
    /\ pc = "print"
    /\ next_line <= Len(results)
    /\ stdout' = Append(stdout, results[next_line])
    /\ next_line' = next_line + 1
    /\ calls' = Append(calls, "println")
    /\ UNCHANGED <<args, env, pc, parsed, opened, read_result, contents, results, run_result,
                   stderr, status, fnVars>>

\* lib.rs:62  the loop is over
RunReturnOk ==
    /\ pc = "print"
    /\ next_line > Len(results)
    /\ run_result' = [kind |-> "Ok"]
    /\ pc' = "run_ok"
    /\ UNCHANGED <<args, env, parsed, opened, read_result, contents, results, next_line,
                   stdout, stderr, status, calls, fnVars>>

\* main.rs:31-34  run returned Err
MainRunErr ==
    /\ pc = "run_err"
    /\ stderr' = Append(stderr, <<"Application error: ", run_result.error>>)
    /\ status' = <<1>>
    /\ pc' = "exited"
    /\ UNCHANGED <<args, env, parsed, opened, read_result, contents, results, next_line,
                   run_result, stdout, calls, fnVars>>

\* main.rs:35  main returns
MainReturn ==
    /\ pc = "run_ok"
    /\ status' = <<0>>
    /\ pc' = "exited"
    /\ UNCHANGED <<args, env, parsed, opened, read_result, contents, results, next_line,
                   run_result, stdout, stderr, calls, fnVars>>

Next ==
    \/ MainConfigNew
    \/ MainConfigErr
    \/ RunReadOk
    \/ RunReadErr
    \/ RunSearch
    \/ RunPrintln
    \/ RunReturnOk
    \/ MainRunErr
    \/ MainReturn

Spec == Init /\ [][Next]_vars

-----------------------------------------------------------------------------
(* SpecSearch: the two search functions called on every input.             *)

ProgIdle ==
    /\ args = <<ProgName>>
    /\ env = "unset"
    /\ pc = "idle"
    /\ parsed = [kind |-> "None"]
    /\ opened = <<>>
    /\ read_result = [kind |-> "None"]
    /\ contents = <<>>
    /\ results = <<>>
    /\ next_line = 1
    /\ run_result = [kind |-> "None"]
    /\ stdout = <<>>
    /\ stderr = <<>>
    /\ status = <<>>
    /\ calls = <<>>

InitSearch ==
    /\ ProgIdle
    /\ query \in Strings(MaxQueryLen)
    /\ text \in Strings(MaxContentLen)
    /\ found = <<>>
    /\ found_ci = <<>>
    /\ step = "start"

CallSearch ==
    /\ step = "start"
    /\ found' = search(query, text)
    /\ step' = "searched"
    /\ UNCHANGED <<query, text, found_ci, progVars>>

CallSearchCaseInsensitive ==
    /\ step = "searched"
    /\ found_ci' = search_case_insensitive(query, text)
    /\ step' = "both"
    /\ UNCHANGED <<query, text, found, progVars>>

NextSearch == CallSearch \/ CallSearchCaseInsensitive

SpecSearch == InitSearch /\ [][NextSearch]_vars

-----------------------------------------------------------------------------
(* Vocabulary of the properties, independent of the operators above.       *)

Range(s) == {s[i] : i \in 1..Len(s)}

\* q occurs in l: l = u \o q \o v for some u and v.
Occurs(q, l) ==
    \E i \in 0..Len(l) : \E j \in i..Len(l) : SubSeq(l, i + 1, j) = q

\* The k-th smallest element of the set P of integers.
Nth(P, k) == CHOOSE i \in P : Cardinality({j \in P : j < i}) = k - 1

\* r is ls restricted to the positions in P, in order: one element for each
\* position of P, none for the others.
IsSelection(r, ls, P) ==
    /\ Len(r) = Cardinality(P)
    /\ \A k \in 1..Len(r) : r[k] = ls[Nth(P, k)]

\* The positions of the lines of ls that hold q as an exact substring.
Matching(ls, q) == {i \in 1..Len(ls) : Occurs(q, ls[i])}

\* The positions of the lines of ls whose lowercase holds the lowercase of q.
MatchingLowercase(ls, q) ==
    {i \in 1..Len(ls) : Occurs(to_lowercase(q), to_lowercase(ls[i]))}

\* a is b with some elements left out.
RECURSIVE IsSubsequence(_, _)
IsSubsequence(a, b) ==
    IF a = <<>> THEN TRUE
    ELSE IF b = <<>> THEN FALSE
    ELSE IF Head(a) = Head(b) THEN IsSubsequence(Tail(a), Tail(b))
    ELSE IsSubsequence(a, Tail(b))

\* The texts between consecutive newline characters of c (and before the
\* first, and after the last): one more than there are newlines.
Boundaries(c) == {0} \cup {i \in 1..Len(c) : c[i] = LF} \cup {Len(c) + 1}

Segment(c, k) ==
    SubSeq(c, Nth(Boundaries(c), k) + 1, Nth(Boundaries(c), k + 1) - 1)

NumSegments(c) == Cardinality(Boundaries(c)) - 1

HasNewline(c) == \E i \in 1..Len(c) : c[i] = LF

EndsWith(c, ch) == c # <<>> /\ c[Len(c)] = ch

Searched == step \in {"searched", "both"}

-----------------------------------------------------------------------------
(* Properties of the search functions, under SpecSearch.                   *)

\* C1: search(Q, C) is the line sequence of C filtered by "the line contains
\* Q as an exact substring": one element per matching line position, in the
\* order of C, each the text of that line.
C1_SearchIsFilter ==
    Searched => IsSelection(found, lines(text), Matching(lines(text), query))

\* C1 witness: a line that holds Q and occurs twice in C is reported twice.
C1_Witness ==
    /\ Searched
    /\ query # <<>>
    /\ Len(found) = 2
    /\ found[1] = found[2]

\* C2: search_case_insensitive(Q, C) is the line sequence of C filtered by
\* "lowercase(line) contains lowercase(Q)", in order, and every element is
\* the original text of its line.
C2_InsensitiveIsFilter ==
    step = "both" =>
        IsSelection(found_ci, lines(text),
                    MatchingLowercase(lines(text), query))

\* C2 witness: a returned line that differs from its lowercased copy and
\* matches only after lowercasing.
C2_Witness ==
    /\ step = "both"
    /\ \E k \in 1..Len(found_ci) :
          /\ found_ci[k] # to_lowercase(found_ci[k])
          /\ ~Occurs(query, found_ci[k])

\* C4: search(Q, C) is an order-preserving subsequence of
\* search_case_insensitive(Q, C); every line of the first is in the second.
C4_InsensitiveIsSuperset ==
    step = "both" =>
        /\ Range(found) \subseteq Range(found_ci)
        /\ IsSubsequence(found, found_ci)

\* C5: with the empty query both searches return all lines of C, in order.
C5_EmptyQueryReturnsAllLines ==
    (step = "both" /\ query = <<>>) =>
        /\ found = lines(text)
        /\ found_ci = lines(text)

\* C5 witness: the empty query on contents with several lines, one empty.
C5_Witness ==
    /\ step = "both"
    /\ query = <<>>
    /\ Len(found) >= 2
    /\ <<>> \in Range(found)
    /\ found[1] # <<>>

-----------------------------------------------------------------------------
(* How the searches split the contents into lines, under SpecSearch.       *)

\* The lines as the claim has them: the texts between consecutive newline
\* characters, without the empty text after a trailing newline; contents
\* with no newline are one line, the empty contents too.
ClaimedLines(c) ==
    LET n == IF HasNewline(c) /\ Segment(c, NumSegments(c)) = <<>>
             THEN NumSegments(c) - 1 ELSE NumSegments(c)
    IN  [k \in 1..n |-> Segment(c, k)]

\* The lines as the code has them: the texts between consecutive newline
\* characters, each text that a newline ends without the carriage return
\* right before that newline, and without the empty text after the last
\* newline or of the empty contents.
SplitLines(c) ==
    LET n == IF Segment(c, NumSegments(c)) = <<>>
             THEN NumSegments(c) - 1 ELSE NumSegments(c)
    IN  [k \in 1..n |->
            LET seg == Segment(c, k)
            IN  IF k < NumSegments(c) /\ EndsWith(seg, CR)
                THEN SubSeq(seg, 1, Len(seg) - 1) ELSE seg]

\* C9, as claimed: both searches test the texts between consecutive newline
\* characters; appending a newline to non-empty contents that do not end
\* in one changes no result; contents without a newline, the empty contents
\* included, are exactly one line.
C9_LinesAsClaimed ==
    step = "both" =>
        /\ IsSelection(found, ClaimedLines(text), Matching(ClaimedLines(text), query))
        /\ IsSelection(found_ci, ClaimedLines(text),
                       MatchingLowercase(ClaimedLines(text), query))
        /\ (text # <<>> /\ ~EndsWith(text, LF)) =>
              /\ search(query, Append(text, LF)) = found
              /\ search_case_insensitive(query, Append(text, LF)) = found_ci
        /\ (~HasNewline(text) /\ query = <<>>) =>
              (Len(found) = 1 /\ Len(found_ci) = 1)

\* C9, amended: both searches test the texts between consecutive newline
\* characters, less the carriage return right before the newline that ends
\* a text; appending a newline to non-empty contents that end neither in a
\* newline nor in a carriage return changes no result; contents without a
\* newline are one line when they are not empty and no line when they are.
C9_Lines ==
    step = "both" =>
        /\ IsSelection(found, SplitLines(text), Matching(SplitLines(text), query))
        /\ IsSelection(found_ci, SplitLines(text),
                       MatchingLowercase(SplitLines(text), query))
        /\ (text # <<>> /\ ~EndsWith(text, LF) /\ ~EndsWith(text, CR)) =>
              /\ search(query, Append(text, LF)) = found
              /\ search_case_insensitive(query, Append(text, LF)) = found_ci
        /\ (~HasNewline(text) /\ query = <<>>) =>
              /\ Len(found) = (IF text = <<>> THEN 0 ELSE 1)
              /\ Len(found_ci) = (IF text = <<>> THEN 0 ELSE 1)

\* C9 witness: contents whose first line ends in "\r\n" and whose last line
\* has no newline, every line tested against the empty query.
C9_Witness ==
    /\ step = "both"
    /\ query = <<>>
    /\ HasNewline(text)
    /\ \E i \in 2..Len(text) : text[i] = LF /\ text[i - 1] = CR
    /\ ~EndsWith(text, LF)
    /\ Len(found) = 2

-----------------------------------------------------------------------------
(* Properties of one execution, under Spec.                                *)

IsPrefix(a, b) == Len(a) <= Len(b) /\ a = SubSeq(b, 1, Len(a))

Called(f) == f \in Range(calls)

HasSearched == Called("search") \/ Called("search_case_insensitive")

EnvPresent == env # "unset"

\* The positional arguments, after the program name.
Positional == Tail(args)

\* C3, as claimed: a run that searches uses the case-sensitive search when
\* the toggle variable is present in the environment, whatever its value,
\* and the case-insensitive search when it is absent.
C3_ToggleAsClaimed ==
    HasSearched =>
        /\ EnvPresent =>
              /\ Called("search") /\ ~Called("search_case_insensitive")
              /\ results = search(Positional[1], contents)
        /\ ~EnvPresent =>
              /\ Called("search_case_insensitive") /\ ~Called("search")
              /\ results = search_case_insensitive(Positional[1], contents)

\* C3, amended: a run that searches uses the case-insensitive search when
\* the toggle variable is present with a value that is valid Unicode (the
\* empty string included), and the case-sensitive search when the variable
\* is absent or its value is not valid Unicode.
C3_Toggle ==
    HasSearched =>
        /\ env \in {"set_empty", "set_value"} =>
              /\ Called("search_case_insensitive") /\ ~Called("search")
              /\ results = search_case_insensitive(Positional[1], contents)
        /\ env \in {"unset", "set_not_unicode"} =>
              /\ Called("search") /\ ~Called("search_case_insensitive")
              /\ results = search(Positional[1], contents)

\* C3 witness: the variable is set to the empty string and the run prints a
\* line that the case-sensitive search does not return.
C3_Witness ==
    /\ env = "set_empty"
    /\ pc = "exited"
    /\ stdout # <<>>
    /\ search(Positional[1], contents) = <<>>

\* C6: with fewer than two positional arguments Config::new returns
\* Err("not enough arguments"); no file is read, no search runs, nothing is
\* written to standard output, and the process ends with one message on the
\* error stream and a non-zero status.
C6_NotEnoughArguments ==
    Len(Positional) < 2 =>
        /\ pc \in {"main", "config_err", "exited"}
        /\ pc # "main" =>
              parsed = [kind |-> "Err", error |-> "not enough arguments"]
        /\ opened = <<>>
        /\ ~Called("fs::read_to_string")
        /\ ~HasSearched
        /\ stdout = <<>>
        /\ pc = "exited" =>
              /\ stderr = <<<<"Problem parsing arguments: ",
                              "not enough arguments">>>>
              /\ status # <<>>
              /\ status # <<0>>

\* C6 witness: an execution with the query alone has ended.
C6_Witness ==
    /\ Len(Positional) = 1
    /\ pc = "exited"

\* C7: a failed read makes run return the error with no search called and
\* nothing written to standard output, and the process ends with a message
\* on the error stream and a non-zero status; run returns no error but that
\* of the read, and returns Ok whenever the read succeeded.
C7_ReadFailureOnly ==
    /\ read_result.kind = "Err" =>
          /\ run_result = read_result
          /\ ~HasSearched
          /\ stdout = <<>>
          /\ pc \in {"run_err", "exited"}
          /\ pc = "exited" =>
                /\ stderr = <<<<"Application error: ", read_result.error>>>>
                /\ status # <<>>
                /\ status # <<0>>
    /\ run_result.kind = "Err" => read_result.kind = "Err"
    /\ read_result.kind = "Ok" =>
          /\ pc \in {"search", "print", "run_ok", "exited"}
          /\ pc \in {"run_ok", "exited"} => run_result = [kind |-> "Ok"]

\* C7 witness: an execution whose read failed has ended.
C7_Witness ==
    /\ read_result.kind = "Err"
    /\ pc = "exited"

\* The calls of a successful execution that printed n lines.
CallsOfSuccess(sel, n) ==
    <<"Config::new", "fs::read_to_string", sel>> \o [i \in 1..n |-> "println"]

\* C8: an execution in which run returns Ok has parsed the arguments, then
\* read the whole file, then run exactly one of the two searches on the
\* whole contents, then written the results; standard output holds the
\* result sequence of that search, record by record, and the exit status
\* is zero.
C8_SuccessfulExecution ==
    /\ (pc = "exited" /\ run_result.kind = "Ok") =>
          /\ status = <<0>>
          /\ stderr = <<>>
          /\ contents = read_result.value
          /\ \E sel \in {"search", "search_case_insensitive"} :
                /\ calls = CallsOfSuccess(sel, Len(results))
                /\ results = IF sel = "search"
                             THEN search(parsed.value.query, contents)
                             ELSE search_case_insensitive(parsed.value.query,
                                                          contents)
          /\ stdout = results
    /\ status = <<0>> => run_result.kind = "Ok"
    /\ IsPrefix(stdout, results)

\* C8 witness: a successful execution that wrote two different lines.
C8_Witness ==
    /\ pc = "exited"
    /\ status = <<0>>
    /\ Len(stdout) = 2
    /\ stdout[1] # stdout[2]

\* C10: with two or more positional arguments Config::new returns Ok with
\* query = the first and filename = the second; the file read is the one
\* named second, and the output is a search for the first in its contents,
\* whatever the further arguments are.
C10_SurplusArgumentsIgnored ==
    Len(Positional) >= 2 =>
        /\ pc # "main" =>
              /\ parsed.kind = "Ok"
              /\ parsed.value.query = Positional[1]
              /\ parsed.value.filename = Positional[2]
        /\ opened \in {<<>>, <<Positional[2]>>}
        /\ pc # "config_err"
        /\ pc \in {"print", "run_ok"} \/ (pc = "exited" /\ status = <<0>>) =>
              /\ results \in {search(Positional[1], contents),
                              search_case_insensitive(Positional[1], contents)}
              /\ IsPrefix(stdout, results)
              /\ pc = "exited" => stdout = results

\* C10 witness: an execution with a third positional argument, different
\* from the first two, has printed a line and ended.
C10_Witness ==
    /\ Len(Positional) = 3
    /\ Positional[3] # Positional[1]
    /\ Positional[3] # Positional[2]
    /\ pc = "exited"
    /\ stdout # <<>>

====
